---- MODULE Spec2Model ----
(***************************************************************************)
(* State machine of the application store of src/store.ts (AppProvider):   *)
(* the React state cells, the browser's localStorage, the remote           *)
(* member_companies table, the calls that are in flight, and one action    *)
(* per handler, effect or promise continuation.                            *)
(***************************************************************************)
EXTENDS Integers, Sequences, FiniteSets, TLC

\* ------------------------------------------------------------------ bounds
\* User-invoked operations (page reloads included) in one behaviour.
MaxOps == 3
\* Of which, handlers of the settings, the member companies and askAI: they
\* come with many arguments and remote outcomes.
MaxRemoteOps == 2
\* Largest value of the millisecond clock read by Date.now().
MaxClock == 2
\* Saves that hit the storage quota in one behaviour, at most.
MaxQuotaFailures == 1

\* ------------------------------------------------------------------ values
\* JavaScript's null and undefined, as seen in string-typed fields.
Null == "null"
Undefined == "undefined"

\* Fields declared optional (link?, answer?): the only ones that hold undefined.
OptionalKeys == {"link", "answer"}

STORAGE_KEYS == {"BBS", "SETTINGS", "INQUIRIES"}

Urls == {"u1"}
Links == {Undefined, "l1"}
Answers == {"x", "y"}
ProfileKinds == {"founder", "chairman", "logo"}
Outcomes == {"ok", "error", "throw"}

\* new Date().toISOString().split('T')[0]: the day the clock value falls in.
DateOf(t) == t \div 2

INITIAL_ROLLING_IMAGES == << [id |-> 1, url |-> "banner.png"] >>

INITIAL_BBS_DATA == << [id |-> 0, date |-> 0, title |-> "seed", content |-> "c"] >>

DefaultSettings ==
    [ showSidebar      |-> TRUE,
      rollingImages    |-> INITIAL_ROLLING_IMAGES,
      founderImageUrl  |-> "founder.png",
      chairmanImageUrl |-> "kwon.png",
      logoImageUrl     |-> "logo.png",
      adminPassword    |-> "password" ]

ImageUrlKey(type) ==
    CASE type = "founder" -> "founderImageUrl"
      [] type = "chairman" -> "chairmanImageUrl"
      [] type = "logo" -> "logoImageUrl"

ColumnOf(type) ==
    CASE type = "founder" -> "founder_image_url"
      [] type = "chairman" -> "chairman_image_url"
      [] type = "logo" -> "logo_image_url"

\* ------------------------------------------------------- object helpers
\* { ...a, ...b }: the keys of both, b's value where b has the key.
Spread(a, b) ==
    [k \in (DOMAIN a) \cup (DOMAIN b) |-> IF k \in DOMAIN b THEN b[k] ELSE a[k]]

\* o[k] is undefined: the key is missing, or present holding undefined.
IsUndefinedAt(o, k) ==
    \/ k \notin DOMAIN o
    \/ (k \in OptionalKeys /\ o[k] = Undefined)

\* a ?? b
Coalesce(a, b) == IF a = Null \/ a = Undefined THEN b ELSE a

IdsOf(s) == {s[i].id : i \in 1..Len(s)}

\* ------------------------------------------------------- JSON conversion
\* JSON.stringify of one object: keys whose value is undefined are left out.
JsonObject(o) == [k \in {j \in DOMAIN o : ~IsUndefinedAt(o, j)} |-> o[k]]

JsonList(s) == [i \in 1..Len(s) |-> JsonObject(s[i])]

JsonSettings(s) ==
    [k \in DOMAIN JsonObject(s) |->
        IF k = "rollingImages" THEN JsonList(s[k]) ELSE s[k]]

\* What localStorage holds under one key: nothing, text that JSON.parse
\* rejects, or the text of a JSON value (kept as the value it denotes).
Absent == [kind |-> "absent"]
Corrupt == [kind |-> "corrupt"]
Text(v) == [kind |-> "json", val |-> v]

\* if (saved): getItem returned a non-empty string.
Truthy(item) == item.kind # "absent"
\* JSON.parse(saved) throws
ParseThrows(item) == item.kind = "corrupt"
\* JSON.parse(saved)
Parse(item) == item.val

\* Field-for-field equality of two objects: every key reads the same value in
\* both (a missing key reads undefined).
SameObject(a, b) ==
    \A k \in (DOMAIN a) \cup (DOMAIN b) :
        IF k \in DOMAIN a /\ k \in DOMAIN b
        THEN a[k] = b[k]
        ELSE IsUndefinedAt(a, k) /\ IsUndefinedAt(b, k)

SameList(a, b) ==
    /\ Len(a) = Len(b)
    /\ \A i \in 1..Len(a) : SameObject(a[i], b[i])

SameSettings(a, b) ==
    /\ DOMAIN a = DOMAIN b
    /\ \A k \in DOMAIN a :
        IF k = "rollingImages" THEN SameList(a[k], b[k]) ELSE a[k] = b[k]

\* ------------------------------------------------------- member companies
OrderIndexes == {1, 2}

\* prev.sort((a, b) => a.order_index - b.order_index): Array.prototype.sort is
\* stable, so rows of equal order_index keep their relative order.
RECURSIVE SortByOrderIndex(_)
SortByOrderIndex(s) ==
    IF s = << >> THEN << >>
    ELSE LET front == SortByOrderIndex(SubSeq(s, 1, Len(s) - 1))
             x == s[Len(s)]
             n == Cardinality({i \in 1..Len(front) :
                                  front[i].order_index <= x.order_index})
         IN  SubSeq(front, 1, n) \o << x >> \o SubSeq(front, n + 1, Len(front))

IsSortedByOrderIndex(s) ==
    \A i \in 1..Len(s) : \A j \in 1..Len(s) :
        i < j => s[i].order_index <= s[j].order_index

\* .order('order_index', { ascending: true }): the rows of the table in some
\* order that ascends by order_index (ties in any order).
OrderedRows(table) ==
    {s \in [1..Cardinality(table) -> table] :
        /\ \A i \in DOMAIN s : \A j \in DOMAIN s : i # j => s[i] # s[j]
        /\ IsSortedByOrderIndex(s)}

NoRow == [id |-> 0, order_index |-> 0, name |-> ""]

VARIABLES
    now,             \* Date.now()
    apiKey,          \* import.meta.env.VITE_GEMINI_API_KEY is set
    isSyncing,
    isInitialized,
    bbsData,
    inquiries,
    settings,
    settingsRowId,
    memberCompanies,
    localStorage,    \* STORAGE_KEYS -> Absent, Corrupt or Text(value)
    dbSettings,      \* first row of the remote settings table, if any
    dbCompanies,     \* rows of the remote member_companies table
    dbNextId,        \* id the remote gives the next inserted row
    loadPc,          \* position of loadFromStorageAndSupabase
    companiesResp,   \* response of the member_companies select, in flight
    calls,           \* remote updates in flight, each with its response
    aiCalls,         \* askAI calls waiting for generate()
    alerts,          \* number of alert() dialogs shown
    remoteUpdates,   \* number of settings update requests issued
    generateCalls,   \* number of generate() requests issued
    ops,             \* operations invoked so far
    lastOp,          \* the step just taken, with its arguments and result
    quotaLeft,       \* saves that may still hit the storage quota
    persisted,       \* the state the save effect last wrote in full
    pristine         \* no handler and no remote overlay since this container started

vars ==
    << now, apiKey, isSyncing, isInitialized, bbsData, inquiries, settings,
       settingsRowId, memberCompanies, localStorage, dbSettings, dbCompanies,
       dbNextId, loadPc, companiesResp, calls, aiCalls, alerts, remoteUpdates,
       generateCalls, ops, lastOp, quotaLeft, persisted, pristine >>

aiVars == << apiKey, isSyncing, aiCalls, generateCalls >>
remoteVars == << dbSettings, dbCompanies, dbNextId >>
loadVars == << loadPc, companiesResp >>

NoSnapshot == [saved |-> FALSE]
Snapshot(b, s, i) == [saved |-> TRUE, bbs |-> b, settings |-> s, inquiries |-> i]

NoResponse == [outcome |-> "none", rows |-> << >>]

\* ------------------------------------------------------------ save effect
\* The three setItem calls of the save effect, of which the first n return
\* and the next throws (quota exceeded); n = 3 is a save that completes.
WriteKeys(n, b, s, i) ==
    [k \in STORAGE_KEYS |->
        CASE k = "BBS" -> IF n >= 1 THEN Text(JsonList(b)) ELSE localStorage[k]
          [] k = "SETTINGS" -> IF n >= 2 THEN Text(JsonSettings(s)) ELSE localStorage[k]
          [] k = "INQUIRIES" -> IF n >= 3 THEN Text(JsonList(i)) ELSE localStorage[k]]

\* Variant: the effect has no `if (!isInitialized) return`.
SaveEffect_Ungated(b, s, i, initialized) ==
    \E n \in 0..3 :
        /\ n < 3 => quotaLeft > 0
        /\ quotaLeft' = IF n < 3 THEN quotaLeft - 1 ELSE quotaLeft
        /\ localStorage' = WriteKeys(n, b, s, i)
        /\ persisted' = IF n = 3 THEN Snapshot(b, s, i) ELSE NoSnapshot

\* useEffect(..., [bbsData, settings, inquiries, isInitialized]): runs after a
\* render in which one of them was set, on the values of that render.
SaveEffect(b, s, i, initialized) ==
    IF ~initialized
    THEN UNCHANGED << localStorage, persisted, quotaLeft >>
    ELSE \E n \in 0..3 :
            /\ n < 3 => quotaLeft > 0
            /\ quotaLeft' = IF n < 3 THEN quotaLeft - 1 ELSE quotaLeft
            /\ localStorage' = WriteKeys(n, b, s, i)
            /\ persisted' = IF n = 3 THEN Snapshot(b, s, i) ELSE NoSnapshot

\* Variant: the state is set and the effect does not run.
SetStore_NoEffect(b, s, i) ==
    /\ bbsData' = b
    /\ settings' = s
    /\ inquiries' = i
    /\ UNCHANGED << localStorage, persisted, quotaLeft >>

\* A handler that sets bulletin, settings or inquiry state, then the effect.
SetStore(b, s, i) ==
    /\ bbsData' = b
    /\ settings' = s
    /\ inquiries' = i
    /\ SaveEffect(b, s, i, isInitialized)

InvokeWithin(op, max) ==
    /\ loadPc # "mount"
    /\ ops < max
    /\ ops' = ops + 1
    /\ lastOp' = op
    /\ pristine' = FALSE


Invoke(op) == InvokeWithin(op, MaxOps)

InvokeRemote(op) == InvokeWithin(op, MaxRemoteOps)

storeFrame ==
    << now, isInitialized, settingsRowId, memberCompanies, alerts >>

\* --------------------------------------------------------------- bulletin
BbsInputs == {[title |-> "t1", content |-> "c"]}
BbsUpdates == {[title |-> "t2"]}

\* An id that no entry carries: ids are clock values or the seed's.
NoSuchId == MaxClock + 1

\* Variant: the new entry is put at the end.
addBbsEntryFn_Append(prev, entry, t) ==
    Append(prev, Spread(entry, [id |-> t, date |-> DateOf(t)]))

\* setBbsData(prev => [newEntry, ...prev])
addBbsEntryFn(prev, entry, t) ==
    << Spread(entry, [id |-> t, date |-> DateOf(t)]) >> \o prev

addBbsEntry(entry) ==
    /\ Invoke([name |-> "addBbsEntry", entry |-> entry])
    /\ SetStore(addBbsEntryFn(bbsData, entry, now), settings, inquiries)
    /\ UNCHANGED << storeFrame, aiVars, remoteVars, loadVars, calls, remoteUpdates >>

\* Variant: the updates are merged into every entry.
updateBbsEntryFn_All(prev, id, updates) ==
    [i \in 1..Len(prev) |-> Spread(prev[i], updates)]

\* setBbsData(prev => prev.map(entry => entry.id === id ? { ...entry, ...updates } : entry))
updateBbsEntryFn(prev, id, updates) ==
    [i \in 1..Len(prev) |->
        IF prev[i].id = id THEN Spread(prev[i], updates) ELSE prev[i]]

updateBbsEntry(id, updates) ==
    /\ Invoke([name |-> "updateBbsEntry", id |-> id, updates |-> updates])
    /\ SetStore(updateBbsEntryFn(bbsData, id, updates), settings, inquiries)
    /\ UNCHANGED << storeFrame, aiVars, remoteVars, loadVars, calls, remoteUpdates >>

deleteBbsEntryFn(prev, id) ==
    SelectSeq(prev, LAMBDA entry : entry.id # id)

deleteBbsEntry(id) ==
    /\ Invoke([name |-> "deleteBbsEntry", id |-> id])
    /\ SetStore(deleteBbsEntryFn(bbsData, id), settings, inquiries)
    /\ UNCHANGED << storeFrame, aiVars, remoteVars, loadVars, calls, remoteUpdates >>

\* -------------------------------------------------------------- inquiries
InquiryInputs == {[content |-> "q"], [content |-> "r"]}

addInquiryFn(prev, inquiry, t) ==
    << Spread(inquiry, [id |-> t, date |-> DateOf(t), status |-> "pending"]) >> \o prev

addInquiry(inquiry) ==
    /\ Invoke([name |-> "addInquiry", inquiry |-> inquiry])
    /\ SetStore(bbsData, settings, addInquiryFn(inquiries, inquiry, now))
    /\ UNCHANGED << storeFrame, aiVars, remoteVars, loadVars, calls, remoteUpdates >>

deleteInquiryFn(prev, id) ==
    SelectSeq(prev, LAMBDA inq : inq.id # id)

deleteInquiry(id) ==
    /\ Invoke([name |-> "deleteInquiry", id |-> id])
    /\ SetStore(bbsData, settings, deleteInquiryFn(inquiries, id))
    /\ UNCHANGED << storeFrame, aiVars, remoteVars, loadVars, calls, remoteUpdates >>

answerInquiryFn(prev, id, answer) ==
    [i \in 1..Len(prev) |->
        IF prev[i].id = id
        THEN Spread(prev[i], [answer |-> answer, status |-> "answered"])
        ELSE prev[i]]

answerInquiry(id, answer) ==
    /\ Invoke([name |-> "answerInquiry", id |-> id, answer |-> answer])
    /\ SetStore(bbsData, settings, answerInquiryFn(inquiries, id, answer))
    /\ UNCHANGED << storeFrame, aiVars, remoteVars, loadVars, calls, remoteUpdates >>

\* --------------------------------------------------------------- settings
updateRollingImageFn(prev, id, url, link) ==
    [prev EXCEPT !.rollingImages =
        [i \in 1..Len(@) |->
            IF @[i].id = id
            THEN Spread(@[i], [url |-> url,
                               link |-> IF link = Undefined /\ "link" \in DOMAIN @[i]
                                        THEN @[i].link ELSE link])
            ELSE @[i]]]

updateRollingImage(id, url, link) ==
    /\ InvokeRemote([name |-> "updateRollingImage", id |-> id, url |-> url, link |-> link])
    /\ SetStore(bbsData, updateRollingImageFn(settings, id, url, link), inquiries)
    /\ UNCHANGED << storeFrame, aiVars, remoteVars, loadVars, calls, remoteUpdates >>

updateAdminPassword(password) ==
    /\ InvokeRemote([name |-> "updateAdminPassword", password |-> password])
    /\ SetStore(bbsData, [settings EXCEPT !.adminPassword = password], inquiries)
    /\ UNCHANGED << storeFrame, aiVars, remoteVars, loadVars, calls, remoteUpdates >>

\* setSettings(prev => ({ ...prev, [`${type}ImageUrl`]: url }))
setProfileImageUrl(prev, type, url) ==
    Spread(prev, [k \in {ImageUrlKey(type)} |-> url])

\* Variant: the remote update is issued whatever the row id.
skipsRemoteUpdate_Never(rowId) == FALSE

\* if (!settingsRowId) return;
skipsRemoteUpdate(rowId) == rowId = Null

\* A call in flight: who made it, what it asked, what the remote answers.
Call(cid, op, id, outcome, data) ==
    [cid |-> cid, op |-> op, id |-> id, outcome |-> outcome, data |-> data]

\* The remote's update(payload).eq('id', settingsRowId): one column of the row.
UpdatedRow(row, type, url) == Spread(row, [k \in {ColumnOf(type)} |-> url])

updateProfileImage(type, url) ==
    /\ InvokeRemote([name |-> "updateProfileImage", type |-> type, url |-> url,
               rowId |-> settingsRowId])
    /\ SetStore(bbsData, setProfileImageUrl(settings, type, url), inquiries)
    /\ IF skipsRemoteUpdate(settingsRowId)
       THEN UNCHANGED << calls, remoteUpdates, dbSettings >>
       ELSE /\ remoteUpdates' = remoteUpdates + 1
            /\ \/ /\ calls' = calls \cup
                        {Call(ops, "profile", 0, "ok", [type |-> type, url |-> url])}
                  /\ dbSettings' = UpdatedRow(dbSettings, type, url)
               \/ /\ \E outcome \in {"error", "throw"} :
                        calls' = calls \cup
                            {Call(ops, "profile", 0, outcome, [type |-> type, url |-> url])}
                  /\ UNCHANGED dbSettings
    /\ UNCHANGED << storeFrame, aiVars, dbCompanies, dbNextId, loadVars >>

\* Variant: a failed update puts the default URL of the kind back.
updateProfileImageReturn_Rollback(c) ==
    /\ c \in calls /\ c.op = "profile"
    /\ calls' = calls \ {c}
    /\ alerts' = IF c.outcome = "ok" THEN alerts ELSE alerts + 1
    /\ lastOp' = [name |-> "updateProfileImage.return", outcome |-> c.outcome,
                  type |-> c.data.type, url |-> c.data.url]
    /\ SetStore(bbsData,
                IF c.outcome = "ok" THEN settings
                ELSE setProfileImageUrl(settings, c.data.type,
                                        DefaultSettings[ImageUrlKey(c.data.type)]),
                inquiries)
    /\ UNCHANGED << now, isInitialized, settingsRowId, memberCompanies, pristine, ops,
                    aiVars, remoteVars, loadVars, remoteUpdates >>

\* The continuation after await supabase...update(payload).eq('id', settingsRowId)
updateProfileImageReturn(c) ==
    /\ c \in calls /\ c.op = "profile"
    /\ calls' = calls \ {c}
    /\ alerts' = IF c.outcome = "ok" THEN alerts ELSE alerts + 1
    /\ lastOp' = [name |-> "updateProfileImage.return", outcome |-> c.outcome,
                  type |-> c.data.type, url |-> c.data.url]
    /\ UNCHANGED << now, isInitialized, bbsData, inquiries, settings, settingsRowId,
                    memberCompanies, localStorage, persisted, quotaLeft, pristine, ops,
                    aiVars, remoteVars, loadVars, remoteUpdates >>


\* --------------------------------------------------------- initial load
\* Step 1 of loadFromStorageAndSupabase, up to the first await. The parses
\* run in the order bulletin, inquiries, settings; the first that throws ends
\* the try block.
BbsParseThrows == Truthy(localStorage["BBS"]) /\ ParseThrows(localStorage["BBS"])

InquiriesParseThrows ==
    /\ ~BbsParseThrows
    /\ Truthy(localStorage["INQUIRIES"]) /\ ParseThrows(localStorage["INQUIRIES"])

SettingsParseThrows ==
    /\ ~BbsParseThrows /\ ~InquiriesParseThrows
    /\ Truthy(localStorage["SETTINGS"]) /\ ParseThrows(localStorage["SETTINGS"])

LocalLoadThrows == BbsParseThrows \/ InquiriesParseThrows \/ SettingsParseThrows

\* if (savedBbs) setBbsData(JSON.parse(savedBbs));
LoadedBbs ==
    IF Truthy(localStorage["BBS"]) /\ ~BbsParseThrows
    THEN Parse(localStorage["BBS"]) ELSE bbsData

\* if (savedInquiries) setInquiries(JSON.parse(savedInquiries));
LoadedInquiries ==
    IF ~BbsParseThrows /\ Truthy(localStorage["INQUIRIES"]) /\ ~InquiriesParseThrows
    THEN Parse(localStorage["INQUIRIES"]) ELSE inquiries

\* Variant: the spreads are swapped, so the defaults win.
MergeSettings_DefaultsWin(prev, parsed) == Spread(parsed, prev)

\* setSettings(prev => ({ ...prev, ...parsed }));
MergeSettings(prev, parsed) == Spread(prev, parsed)

LoadedSettings ==
    IF ~BbsParseThrows /\ ~InquiriesParseThrows
       /\ Truthy(localStorage["SETTINGS"]) /\ ~SettingsParseThrows
    THEN MergeSettings(settings, Parse(localStorage["SETTINGS"])) ELSE settings

Mount ==
    /\ loadPc = "mount"
    /\ SetStore(LoadedBbs, LoadedSettings, LoadedInquiries)
    /\ loadPc' = IF LocalLoadThrows THEN "timer" ELSE "awaitSettings"
    /\ lastOp' = [name |-> "mount"]
    /\ UNCHANGED << storeFrame, aiVars, remoteVars, companiesResp, calls,
                    remoteUpdates, ops, pristine >>

\* Rows the settings select can return.
SettingsRow(l, f, c) ==
    [id |-> "s1", logo_image_url |-> l, founder_image_url |-> f, chairman_image_url |-> c]

NoSettingsRow == [id |-> Null]

\* The rows the remote settings table may start with.
SettingsRows ==
    { SettingsRow(Null, Null, Null), SettingsRow("r1", "r1", "r1"),
      SettingsRow(Null, "r1", "r1"), SettingsRow("r1", Null, Null) }

\* Variant: the remote fields are taken as they are, null included.
OverlaySettings_NoFallback(prev, data) ==
    Spread(prev,
        [ logoImageUrl     |-> data.logo_image_url,
          founderImageUrl  |-> data.founder_image_url,
          chairmanImageUrl |-> data.chairman_image_url ])

\* setSettings(prev => ({ ...prev, logoImageUrl: data.logo_image_url ?? prev.logoImageUrl, ... }))
OverlaySettings(prev, data) ==
    Spread(prev,
        [ logoImageUrl     |-> Coalesce(data.logo_image_url, prev.logoImageUrl),
          founderImageUrl  |-> Coalesce(data.founder_image_url, prev.founderImageUrl),
          chairmanImageUrl |-> Coalesce(data.chairman_image_url, prev.chairmanImageUrl) ])

\* What the member_companies select answers when the remote serves it.
CompaniesResponses ==
    {[outcome |-> "ok", rows |-> r] : r \in OrderedRows(dbCompanies)}
        \cup {[outcome |-> "error", rows |-> << >>], [outcome |-> "throw", rows |-> << >>]}

\* The continuation after the settings select: steps 2 and the request of 3.
SettingsResponse ==
    /\ loadPc = "awaitSettings"
    /\ \/ \* the await throws: catch, finally
          /\ lastOp' = [name |-> "settingsResponse", outcome |-> "throw"]
          /\ loadPc' = "timer"
          /\ UNCHANGED << bbsData, inquiries, settings, settingsRowId, localStorage,
                          persisted, quotaLeft, pristine, companiesResp >>
       \/ \* { error }: no row, or the remote refuses
          /\ lastOp' = [name |-> "settingsResponse", outcome |-> "error"]
          /\ loadPc' = "awaitCompanies"
          /\ companiesResp' \in CompaniesResponses
          /\ UNCHANGED << bbsData, inquiries, settings, settingsRowId, localStorage,
                          persisted, quotaLeft, pristine >>
       \/ \* .single() answers the row, when there is one
          /\ dbSettings # NoSettingsRow
          /\ lastOp' = [name |-> "settingsResponse", outcome |-> "ok", data |-> dbSettings]
          /\ SetStore(bbsData, OverlaySettings(settings, dbSettings), inquiries)
          /\ settingsRowId' = dbSettings.id
          /\ pristine' = FALSE
          /\ loadPc' = "awaitCompanies"
          /\ companiesResp' \in CompaniesResponses
    /\ UNCHANGED << now, isInitialized, memberCompanies, alerts, aiVars, remoteVars,
                    calls, remoteUpdates, ops >>

\* The continuation after the member_companies select.
CompaniesResponse ==
    /\ loadPc = "awaitCompanies"
    /\ memberCompanies' = IF companiesResp.outcome = "ok"
                          THEN companiesResp.rows ELSE memberCompanies
    /\ loadPc' = "timer"
    /\ companiesResp' = NoResponse
    /\ lastOp' = [name |-> "companiesResponse", outcome |-> companiesResp.outcome]
    /\ UNCHANGED << now, isInitialized, bbsData, inquiries, settings, settingsRowId,
                    localStorage, persisted, quotaLeft, pristine, alerts, aiVars, remoteVars,
                    calls, remoteUpdates, ops >>

\* Variant: the timer is started when the load is, not in its finally block.
InitTimer_Early ==
    /\ loadPc \in {"awaitSettings", "awaitCompanies", "timer"}
    /\ isInitialized' = TRUE
    /\ loadPc' = "done"
    /\ SaveEffect(bbsData, settings, inquiries, TRUE)
    /\ lastOp' = [name |-> "initTimer"]
    /\ UNCHANGED << now, bbsData, inquiries, settings, settingsRowId, memberCompanies,
                    alerts, aiVars, remoteVars, companiesResp, calls, remoteUpdates,
                    ops, pristine >>

\* setTimeout(() => setIsInitialized(true), 50), and the save effect it triggers.
InitTimer ==
    /\ loadPc = "timer"
    /\ isInitialized' = TRUE
    /\ loadPc' = "done"
    /\ SaveEffect(bbsData, settings, inquiries, TRUE)
    /\ lastOp' = [name |-> "initTimer"]
    /\ UNCHANGED << now, bbsData, inquiries, settings, settingsRowId, memberCompanies,
                    alerts, aiVars, remoteVars, companiesResp, calls, remoteUpdates,
                    ops, pristine >>

\* The page is reloaded: a fresh container on the same localStorage and remote.
\* Continuations of the old page never run.
Reload ==
    /\ loadPc # "mount"
    /\ ops < MaxOps
    /\ ops' = ops + 1
    /\ lastOp' = [name |-> "reload"]
    /\ isSyncing' = FALSE
    /\ isInitialized' = FALSE
    /\ bbsData' = INITIAL_BBS_DATA
    /\ inquiries' = << >>
    /\ settings' = DefaultSettings
    /\ settingsRowId' = Null
    /\ memberCompanies' = << >>
    /\ loadPc' = "mount"
    /\ companiesResp' = NoResponse
    /\ calls' = {}
    /\ aiCalls' = {}
    /\ pristine' = TRUE
    /\ UNCHANGED << now, apiKey, localStorage, persisted, quotaLeft, remoteVars, alerts,
                    remoteUpdates, generateCalls >>

Tick ==
    /\ now < MaxClock
    /\ now' = now + 1
    /\ lastOp' = [name |-> "tick"]
    /\ UNCHANGED << apiKey, isSyncing, isInitialized, bbsData, inquiries, settings,
                    settingsRowId, memberCompanies, localStorage, dbSettings,
                    dbCompanies, dbNextId, loadPc, companiesResp, calls, aiCalls, alerts, remoteUpdates,
                    generateCalls, ops, persisted, quotaLeft, pristine >>


\* ------------------------------------------------------- member companies
CompanyInputs == {[order_index |-> o, name |-> "a"] : o \in OrderIndexes}
CompanyUpdates == {[order_index |-> 1], [name |-> "b"]}
CompanyIds == 1..dbNextId

companyFrame ==
    << now, isInitialized, bbsData, inquiries, settings, settingsRowId,
       localStorage, persisted, quotaLeft, aiVars, loadVars, remoteUpdates >>

\* The remote's insert([company]).select().single(): the stored row.
InsertedRow(company) == Spread(company, [id |-> dbNextId])

addMemberCompany(company) ==
    /\ InvokeRemote([name |-> "addMemberCompany", company |-> company])
    /\ \/ /\ calls' = calls \cup {Call(ops, "add", dbNextId, "ok", InsertedRow(company))}
          /\ dbCompanies' = dbCompanies \cup {InsertedRow(company)}
          /\ dbNextId' = dbNextId + 1
       \/ /\ \E outcome \in {"error", "throw"} :
                calls' = calls \cup {Call(ops, "add", 0, outcome, NoRow)}
          /\ UNCHANGED << dbCompanies, dbNextId >>
    /\ UNCHANGED dbSettings
    /\ UNCHANGED << companyFrame, memberCompanies, alerts >>

\* Variant: the response row replaces the collection.
addMemberCompanyFn_Replace(prev, data) == << data >>

\* setMemberCompanies(prev => [...prev, data].sort(...))
addMemberCompanyFn(prev, data) == SortByOrderIndex(Append(prev, data))

\* The continuation after the insert: the response, or the catch block.
addMemberCompanyReturn(c) ==
    /\ c \in calls /\ c.op = "add"
    /\ calls' = calls \ {c}
    /\ IF c.outcome = "ok"
       THEN /\ memberCompanies' = addMemberCompanyFn(memberCompanies, c.data)
            /\ UNCHANGED alerts
       ELSE /\ alerts' = alerts + 1
            /\ UNCHANGED memberCompanies
    /\ lastOp' = [name |-> "addMemberCompany.return", outcome |-> c.outcome, data |-> c.data]
    /\ UNCHANGED << companyFrame, remoteVars, ops, pristine >>

\* The remote's update(updates).eq('id', id).select().single(): the updated
\* row; no row of that id is an error of single().
updateMemberCompany(id, updates) ==
    /\ InvokeRemote([name |-> "updateMemberCompany", id |-> id, updates |-> updates])
    /\ \/ \E row \in dbCompanies :
             /\ row.id = id
             /\ calls' = calls \cup {Call(ops, "update", id, "ok", Spread(row, updates))}
             /\ dbCompanies' = (dbCompanies \ {row}) \cup {Spread(row, updates)}
       \/ /\ \E outcome \in {"error", "throw"} :
                calls' = calls \cup {Call(ops, "update", id, outcome, NoRow)}
          /\ UNCHANGED dbCompanies
    /\ UNCHANGED << companyFrame, memberCompanies, alerts, dbNextId, dbSettings >>

\* Variant: the mapped collection is not sorted again.
updateMemberCompanyFn_NoSort(prev, id, data) ==
    [i \in 1..Len(prev) |-> IF prev[i].id = id THEN data ELSE prev[i]]

\* setMemberCompanies(prev => prev.map(c => c.id === id ? data : c).sort(...))
updateMemberCompanyFn(prev, id, data) ==
    SortByOrderIndex([i \in 1..Len(prev) |-> IF prev[i].id = id THEN data ELSE prev[i]])

updateMemberCompanyReturn(c) ==
    /\ c \in calls /\ c.op = "update"
    /\ calls' = calls \ {c}
    /\ IF c.outcome = "ok"
       THEN /\ memberCompanies' = updateMemberCompanyFn(memberCompanies, c.id, c.data)
            /\ UNCHANGED alerts
       ELSE /\ alerts' = alerts + 1
            /\ UNCHANGED memberCompanies
    /\ lastOp' = [name |-> "updateMemberCompany.return", outcome |-> c.outcome,
                  id |-> c.id, data |-> c.data]
    /\ UNCHANGED << companyFrame, remoteVars, ops, pristine >>

\* The remote's delete().eq('id', id): deleting no row is no error.
deleteMemberCompany(id) ==
    /\ InvokeRemote([name |-> "deleteMemberCompany", id |-> id])
    /\ \/ /\ calls' = calls \cup {Call(ops, "delete", id, "ok", NoRow)}
          /\ dbCompanies' = {row \in dbCompanies : row.id # id}
       \/ /\ \E outcome \in {"error", "throw"} :
                calls' = calls \cup {Call(ops, "delete", id, outcome, NoRow)}
          /\ UNCHANGED dbCompanies
    /\ UNCHANGED << companyFrame, memberCompanies, alerts, dbNextId, dbSettings >>

\* setMemberCompanies(prev => prev.filter(c => c.id !== id))
deleteMemberCompanyFn(prev, id) == SelectSeq(prev, LAMBDA c : c.id # id)

\* Variant: the row is filtered out before the error is looked at.
deleteMemberCompanyReturn_Eager(c) ==
    /\ c \in calls /\ c.op = "delete"
    /\ calls' = calls \ {c}
    /\ memberCompanies' = deleteMemberCompanyFn(memberCompanies, c.id)
    /\ alerts' = IF c.outcome = "ok" THEN alerts ELSE alerts + 1
    /\ lastOp' = [name |-> "deleteMemberCompany.return", outcome |-> c.outcome, id |-> c.id]
    /\ UNCHANGED << companyFrame, remoteVars, ops, pristine >>

\* The continuation after the delete: the filter, or the catch block.
deleteMemberCompanyReturn(c) ==
    /\ c \in calls /\ c.op = "delete"
    /\ calls' = calls \ {c}
    /\ IF c.outcome = "ok"
       THEN /\ memberCompanies' = deleteMemberCompanyFn(memberCompanies, c.id)
            /\ UNCHANGED alerts
       ELSE /\ alerts' = alerts + 1
            /\ UNCHANGED memberCompanies
    /\ lastOp' = [name |-> "deleteMemberCompany.return", outcome |-> c.outcome, id |-> c.id]
    /\ UNCHANGED << companyFrame, remoteVars, ops, pristine >>

\* ------------------------------------------------------------------ askAI
\* catch (error) { console.error(...); throw new Error("AI 서비스에 ...") }:
\* the error the returned promise rejects with, whatever was caught.
askAICatch(caught) == "ServiceUnavailable"

aiFrame ==
    << now, isInitialized, bbsData, inquiries, settings, settingsRowId,
       memberCompanies, localStorage, persisted, quotaLeft, remoteVars, loadVars, calls,
       alerts, remoteUpdates >>

\* askAI up to its first await (or to its end, when the key is missing).
askAI ==
    /\ IF ~apiKey
       THEN /\ InvokeRemote([name |-> "askAI", settled |-> TRUE, logged |-> "MissingApiKey",
                       rejected |-> askAICatch("MissingApiKey"),
                       generateBefore |-> generateCalls])
            /\ isSyncing' = FALSE
            /\ UNCHANGED << aiCalls, generateCalls >>
       ELSE /\ InvokeRemote([name |-> "askAI", settled |-> FALSE])
            /\ isSyncing' = TRUE
            /\ generateCalls' = generateCalls + 1
            /\ aiCalls' = aiCalls \cup {ops}
    /\ UNCHANGED << apiKey, aiFrame >>

\* Variant: the flag is cleared on the way out of the try block only, so a
\* rejected call leaves it set.
askAIReturn_NoFinally(cid) ==
    /\ cid \in aiCalls
    /\ aiCalls' = aiCalls \ {cid}
    /\ \/ /\ lastOp' = [name |-> "askAI.return", cid |-> cid, resolved |-> "text"]
          /\ isSyncing' = FALSE
       \/ /\ lastOp' = [name |-> "askAI.return", cid |-> cid, logged |-> "EmptyResponse",
                        rejected |-> askAICatch("EmptyResponse")]
          /\ UNCHANGED isSyncing
       \/ /\ lastOp' = [name |-> "askAI.return", cid |-> cid, logged |-> "CallFailed",
                        rejected |-> askAICatch("CallFailed")]
          /\ UNCHANGED isSyncing
    /\ UNCHANGED << apiKey, generateCalls, aiFrame, ops, pristine >>

\* The continuation after generate(): text, an empty response, or a throw.
askAIReturn(cid) ==
    /\ cid \in aiCalls
    /\ aiCalls' = aiCalls \ {cid}
    /\ isSyncing' = FALSE
    /\ \/ lastOp' = [name |-> "askAI.return", cid |-> cid, resolved |-> "text"]
       \/ lastOp' = [name |-> "askAI.return", cid |-> cid, logged |-> "EmptyResponse",
                     rejected |-> askAICatch("EmptyResponse")]
       \/ lastOp' = [name |-> "askAI.return", cid |-> cid, logged |-> "CallFailed",
                     rejected |-> askAICatch("CallFailed")]
    /\ UNCHANGED << apiKey, generateCalls, aiFrame, ops, pristine >>

\* ------------------------------------------------------------------- Init
SampleInquiry == [id |-> 0, date |-> 0, content |-> "q0", status |-> "pending"]

StoredCache ==
    [k \in STORAGE_KEYS |->
        CASE k = "BBS" -> Text(<< >>)
          [] k = "SETTINGS" -> Text([adminPassword |-> "pw0"])
          [] k = "INQUIRIES" -> Text(<< SampleInquiry >>)]

\* What an earlier session, or anything else, left in localStorage.
InitialCaches ==
    {[k \in STORAGE_KEYS |-> Absent], StoredCache}
        \cup {[StoredCache EXCEPT ![k] = Corrupt] : k \in STORAGE_KEYS}

InitialTables == {{}, {[id |-> 1, order_index |-> 2, name |-> "a"]}}

Init ==
    /\ now = 1
    /\ apiKey \in BOOLEAN
    /\ isSyncing = FALSE
    /\ isInitialized = FALSE
    /\ bbsData = INITIAL_BBS_DATA
    /\ inquiries = << >>
    /\ settings = DefaultSettings
    /\ settingsRowId = Null
    /\ memberCompanies = << >>
    /\ localStorage \in InitialCaches
    /\ dbSettings \in {NoSettingsRow} \cup SettingsRows
    /\ dbCompanies \in InitialTables
    /\ dbNextId = 2
    /\ loadPc = "mount"
    /\ companiesResp = NoResponse
    /\ calls = {}
    /\ aiCalls = {}
    /\ alerts = 0
    /\ remoteUpdates = 0
    /\ generateCalls = 0
    /\ ops = 0
    /\ lastOp = [name |-> "init"]
    /\ quotaLeft \in {0, MaxQuotaFailures}
    /\ persisted = NoSnapshot
    /\ pristine = TRUE

BbsIds == IdsOf(bbsData) \cup {NoSuchId}
InquiryIds == IdsOf(inquiries) \cup {NoSuchId}

\* The initial load of a container.
LoadSteps ==
    \/ Mount
    \/ SettingsResponse
    \/ CompaniesResponse
    \/ InitTimer

BulletinOps ==
    \/ \E entry \in BbsInputs : addBbsEntry(entry)
    \/ \E id \in BbsIds : \E updates \in BbsUpdates : updateBbsEntry(id, updates)
    \/ \E id \in BbsIds : deleteBbsEntry(id)

InquiryOps ==
    \/ \E inquiry \in InquiryInputs : addInquiry(inquiry)
    \/ \E id \in InquiryIds : deleteInquiry(id)
    \/ \E id \in InquiryIds : \E answer \in Answers : answerInquiry(id, answer)

SettingsOps ==
    \/ \E url \in Urls : \E link \in Links : updateRollingImage(1, url, link)
    \/ updateAdminPassword("pw1")
    \/ \E type \in ProfileKinds : \E url \in Urls : updateProfileImage(type, url)

\* The remote update of a profile image coming back.
SettingsReturns == \E c \in calls : updateProfileImageReturn(c)

CompanyOps ==
    \/ \E company \in CompanyInputs : addMemberCompany(company)
    \/ \E c \in calls : addMemberCompanyReturn(c)
    \/ \E id \in CompanyIds : \E updates \in CompanyUpdates : updateMemberCompany(id, updates)
    \/ \E c \in calls : updateMemberCompanyReturn(c)
    \/ \E id \in CompanyIds : deleteMemberCompany(id)
    \/ \E c \in calls : deleteMemberCompanyReturn(c)

AIOps ==
    \/ askAI
    \/ \E cid \in aiCalls : askAIReturn(cid)

Next ==
    LoadSteps \/ Reload \/ Tick \/ BulletinOps \/ InquiryOps \/ SettingsOps
        \/ SettingsReturns \/ CompanyOps \/ AIOps

Spec == Init /\ [][Next]_vars

\* The handlers of one part of the store touch no state of the other parts, so
\* each part is explored on its own, with the rest of the environment fixed.
EmptyCache == \A k \in STORAGE_KEYS : localStorage[k] = Absent
IntactCache == \A k \in STORAGE_KEYS : localStorage[k] # Corrupt
AmpleStorage == quotaLeft = 0
TightStorage == quotaLeft = MaxQuotaFailures
QuietRemote == dbSettings = NoSettingsRow /\ dbCompanies = {}

\* The bulletin board.
InitBulletin == Init /\ apiKey /\ QuietRemote /\ TightStorage
NextBulletin == LoadSteps \/ Reload \/ Tick \/ BulletinOps
SpecBulletin == InitBulletin /\ [][NextBulletin]_vars

\* The inquiries.
InitInquiries == Init /\ apiKey /\ QuietRemote /\ TightStorage
NextInquiries == LoadSteps \/ Reload \/ Tick \/ InquiryOps
SpecInquiries == InitInquiries /\ [][NextInquiries]_vars

\* The settings.
InitSettings == Init /\ apiKey /\ dbCompanies = {} /\ IntactCache /\ AmpleStorage
NextSettings == LoadSteps \/ Reload \/ SettingsOps \/ SettingsReturns
SpecSettings == InitSettings /\ [][NextSettings]_vars

\* The member companies.
InitCompanies == Init /\ apiKey /\ EmptyCache /\ dbSettings = NoSettingsRow /\ AmpleStorage
NextCompanies == LoadSteps \/ CompanyOps
SpecCompanies == InitCompanies /\ [][NextCompanies]_vars

\* The bulletin, inquiry and settings handlers together, on a remote that
\* answers the initial selects with an error or not at all: no settings row id
\* is ever known, so no remote update of a profile image is in flight.
InitStore == Init /\ apiKey /\ QuietRemote /\ IntactCache /\ AmpleStorage
NextStore == LoadSteps \/ Reload \/ Tick \/ BulletinOps \/ InquiryOps \/ SettingsOps
SpecStore == InitStore /\ [][NextStore]_vars

\* askAI.
InitAI == Init /\ EmptyCache /\ QuietRemote /\ AmpleStorage
NextAI == LoadSteps \/ AIOps
SpecAI == InitAI /\ [][NextAI]_vars

\* The initial load, with remote calls that settle and a timer that fires:
\* each step of the load is taken once it can be.
InitLoad == Init /\ apiKey /\ AmpleStorage
NextLoad == LoadSteps \/ Reload \/ BulletinOps
SpecLoad == InitLoad /\ [][NextLoad]_vars /\ WF_vars(LoadSteps)

\* The member companies on a remote that serves every call: each select
\* answers rows, each insert, update and delete is carried out and answered.
\* The answers come back in any order.
AllCallsSucceed ==
    /\ \A c \in calls : c.outcome = "ok"
    /\ companiesResp.outcome \in {"none", "ok"}
    /\ lastOp.name = "settingsResponse" => lastOp.outcome = "ok"

InitReliable ==
    Init /\ apiKey /\ EmptyCache /\ dbSettings = SettingsRow("r1", "r1", "r1")
         /\ AmpleStorage
NextReliable ==
    \/ Mount /\ AllCallsSucceed'
    \/ SettingsResponse /\ AllCallsSucceed'
    \/ CompaniesResponse /\ AllCallsSucceed'
    \/ InitTimer /\ AllCallsSucceed'
    \/ \E company \in CompanyInputs : addMemberCompany(company) /\ AllCallsSucceed'
    \/ \E c \in calls : addMemberCompanyReturn(c) /\ AllCallsSucceed'
    \/ \E id \in CompanyIds : \E updates \in CompanyUpdates :
          updateMemberCompany(id, updates) /\ AllCallsSucceed'
    \/ \E c \in calls : updateMemberCompanyReturn(c) /\ AllCallsSucceed'
    \/ \E id \in CompanyIds : deleteMemberCompany(id) /\ AllCallsSucceed'
    \/ \E c \in calls : deleteMemberCompanyReturn(c) /\ AllCallsSucceed'
SpecReliable == InitReliable /\ [][NextReliable]_vars


\* ================================================================ claims
DistinctIds(s) ==
    \A i \in 1..Len(s) : \A j \in 1..Len(s) : i # j => s[i].id # s[j].id

\* C1: after any sequence of addBbsEntry and addInquiry calls, calls within
\* one clock tick included, the ids of the bulletin collection are pairwise
\* distinct, and so are the ids of the inquiry collection.
C1_IdsUnique == DistinctIds(bbsData) /\ DistinctIds(inquiries)

\* C2: every addBbsEntry call puts its new entry (the caller's fields, the id
\* and the date of the call) at the head of the bulletin collection and leaves
\* the entries that were there, and their order, as they were.
C2_AddPrepends ==
    [][lastOp'.name = "addBbsEntry" =>
          /\ bbsData' # << >>
          /\ Tail(bbsData') = bbsData
          /\ Head(bbsData') = Spread(lastOp'.entry, [id |-> now, date |-> DateOf(now)])
      ]_vars

\* C2 witness: a second addBbsEntry call, onto a collection that has entries.
C2_Witness ==
    /\ lastOp.name = "addBbsEntry"
    /\ Len(bbsData) >= 3
    /\ bbsData[2].title = "t1"

\* C10: updateBbsEntry with an id that matches no entry leaves the bulletin
\* collection as it was (same entries, same order) and reports no error.
C10_AbsentIdNoOp ==
    [][(lastOp'.name = "updateBbsEntry" /\ lastOp'.id \notin IdsOf(bbsData)) =>
          (bbsData' = bbsData /\ alerts' = alerts)
      ]_vars

\* C10 witness: updateBbsEntry was called with an id no entry carries, on a
\* collection that has entries.
C10_Witness ==
    /\ lastOp.name = "updateBbsEntry"
    /\ lastOp.id \notin IdsOf(bbsData)
    /\ bbsData # << >>


Count(s, x) == Cardinality({i \in 1..Len(s) : s[i] = x})

RemoveAt(s, k) == SubSeq(s, 1, k - 1) \o SubSeq(s, k + 1, Len(s))

\* The same entries, each as often, in whatever order.
SameEntries(a, b) ==
    /\ Len(a) = Len(b)
    /\ \A i \in 1..Len(a) : Count(a, a[i]) = Count(b, a[i])

\* C3: when the insert of addMemberCompany succeeds, the member-company
\* collection gains exactly one entry, that entry is the row the remote
\* answered (with the id the remote gave it, which the input object lacks),
\* and every entry present before is still present, unchanged.
C3_AddTakesResponseRow ==
    [][(lastOp'.name = "addMemberCompany.return" /\ lastOp'.outcome = "ok") =>
          /\ Len(memberCompanies') = Len(memberCompanies) + 1
          /\ \E k \in 1..Len(memberCompanies') :
                /\ memberCompanies'[k] = lastOp'.data
                /\ "id" \in DOMAIN memberCompanies'[k]
                /\ SameEntries(RemoveAt(memberCompanies', k), memberCompanies)
      ]_vars

\* C3 witness: an insert succeeded and its row joined entries already there.
C3_Witness ==
    /\ lastOp.name = "addMemberCompany.return"
    /\ lastOp.outcome = "ok"
    /\ Len(memberCompanies) >= 2
    /\ \E k \in 1..Len(memberCompanies) : memberCompanies[k] = lastOp.data

\* C4: when the remote call of addMemberCompany, updateMemberCompany or
\* deleteMemberCompany fails (an error result or a thrown exception), the
\* member-company collection stays as it was and one alert is shown.
C4_FailureLeavesCompanies ==
    [][(/\ lastOp'.name \in {"addMemberCompany.return", "updateMemberCompany.return",
                             "deleteMemberCompany.return"}
        /\ lastOp'.outcome \in {"error", "throw"}) =>
          (memberCompanies' = memberCompanies /\ alerts' = alerts + 1)
      ]_vars

\* C4 witness: a delete failed, an alert was shown and the row is still held.
C4_Witness ==
    /\ lastOp.name = "deleteMemberCompany.return"
    /\ lastOp.outcome = "throw"
    /\ alerts >= 1
    /\ \E k \in 1..Len(memberCompanies) : memberCompanies[k].id = lastOp.id

\* C5: updateProfileImage(kind, url) called while no remote settings row id is
\* known sets the in-memory URL of that kind to url and issues no remote update.
C5_NoRowIdLocalOnly ==
    [][(lastOp'.name = "updateProfileImage" /\ lastOp'.rowId = Null) =>
          /\ settings'[ImageUrlKey(lastOp'.type)] = lastOp'.url
          /\ remoteUpdates' = remoteUpdates
          /\ calls' = calls
      ]_vars

\* C5 witness: updateProfileImage('logo', url) ran with no row id known.
C5_Witness ==
    /\ lastOp.name = "updateProfileImage"
    /\ lastOp.rowId = Null
    /\ lastOp.type = "logo"
    /\ settings.logoImageUrl = lastOp.url
    /\ remoteUpdates = 0

\* C6: askAI called with no API key configured fails with a missing-key
\* (configuration) error and issues no call to the text-generation service.
C6_MissingKeyError ==
    (lastOp.name = "askAI" /\ lastOp.settled) =>
        (lastOp.rejected = "MissingApiKey" /\ generateCalls = lastOp.generateBefore)

\* C7: when a container that completed initialization has saved its bulletin,
\* settings and inquiry state, a fresh container on that localStorage, with no
\* remote overlay and no handler run, reaches the end of its load with the
\* three equal field for field to what was saved.
C7_RoundTrip ==
    (loadPc = "timer" /\ pristine /\ persisted.saved) =>
        /\ SameList(bbsData, persisted.bbs)
        /\ SameSettings(settings, persisted.settings)
        /\ SameList(inquiries, persisted.inquiries)

\* C7 witness: the saved state had an inquiry, a changed password and a
\* rolling image whose link is undefined, and the fresh container has loaded.
C7_Witness ==
    /\ loadPc = "timer" /\ pristine /\ persisted.saved
    /\ persisted.inquiries # << >>
    /\ persisted.settings.adminPassword # DefaultSettings.adminPassword
    /\ "link" \in DOMAIN persisted.settings.rollingImages[1]
    /\ persisted.settings.rollingImages[1].link = Undefined

\* C8: when the settings row of the initial select is applied, each of the
\* three image URLs becomes the row's field if that is not null, and keeps the
\* value it had (the default, or the locally stored or set one) if it is
\* null; it is never null afterwards.
C8_NullKeepsLocal ==
    [][(lastOp'.name = "settingsResponse" /\ lastOp'.outcome = "ok") =>
          \A type \in ProfileKinds :
              /\ settings'[ImageUrlKey(type)] =
                    IF lastOp'.data[ColumnOf(type)] = Null
                    THEN settings[ImageUrlKey(type)]
                    ELSE lastOp'.data[ColumnOf(type)]
              /\ settings'[ImageUrlKey(type)] # Null
      ]_vars

\* C8 witness: a row with a null logo and a set founder URL was applied: the
\* logo is the default still, the founder URL is the row's.
C8_Witness ==
    /\ lastOp.name = "settingsResponse" /\ lastOp.outcome = "ok"
    /\ lastOp.data.logo_image_url = Null
    /\ lastOp.data.founder_image_url # Null
    /\ settings.logoImageUrl = DefaultSettings.logoImageUrl
    /\ settings.founderImageUrl = lastOp.data.founder_image_url

\* C9: answerInquiry(id, text) on a present inquiry sets that inquiry's status
\* to answered and its answer to text and changes no other inquiry; the same
\* call made again leaves the collection as the first call left it.
C9_AnswerOne ==
    [][(lastOp'.name = "answerInquiry" /\ lastOp'.id \in IdsOf(inquiries)) =>
          /\ Len(inquiries') = Len(inquiries)
          /\ \E k \in 1..Len(inquiries) :
                /\ inquiries[k].id = lastOp'.id
                /\ inquiries'[k].status = "answered"
                /\ inquiries'[k].answer = lastOp'.answer
                /\ \A j \in 1..Len(inquiries) : j # k => inquiries'[j] = inquiries[j]
          /\ (lastOp.name = "answerInquiry" /\ lastOp.id = lastOp'.id
                 /\ lastOp.answer = lastOp'.answer) => inquiries' = inquiries
      ]_vars

\* C11: every askAI invocation, at the step where it ends (it returns text,
\* or it fails on the missing key, on an empty response or on a call error),
\* leaves the busy flag isSyncing cleared.
C11_BusyClearedAtEnd ==
    [][((lastOp'.name = "askAI" /\ lastOp'.settled) \/ lastOp'.name = "askAI.return") =>
          isSyncing' = FALSE
      ]_vars

\* C11 witness: a call that had set the flag was rejected, and the flag is
\* cleared.
C11_Witness ==
    /\ lastOp.name = "askAI.return"
    /\ "rejected" \in DOMAIN lastOp
    /\ lastOp.logged = "CallFailed"
    /\ generateCalls >= 1
    /\ ~isSyncing

\* C20: isSyncing is true in every state in which an askAI call is still
\* waiting for the text-generation service, overlapping calls included.
C20_BusyWhileInFlight == aiCalls # {} => isSyncing

\* C12: no step writes a localStorage key unless initialization is marked
\* complete at the end of that step, whatever handlers are invoked before;
\* so until then the keys hold what the previous session stored.
C12_NoWriteBeforeInitialized ==
    [][~isInitialized' => localStorage' = localStorage]_vars

\* C12 witness: a handler changed the bulletin collection before
\* initialization was marked complete, and localStorage holds the stored
\* values still.
C12_Witness ==
    /\ lastOp.name = "addBbsEntry"
    /\ ~isInitialized
    /\ localStorage = StoredCache
    /\ JsonList(bbsData) # Parse(localStorage["BBS"])

\* The load comes to its finally block by one of three ways: the local load
\* threw (both fetches are skipped), the settings select threw (the
\* member-company select is skipped), or the member-company select settled.
LoadSettles ==
    \/ lastOp'.name = "mount" /\ LocalLoadThrows
    \/ lastOp'.name = "settingsResponse" /\ lastOp'.outcome = "throw"
    \/ lastOp'.name = "companiesResponse"

\* C13: initialization is marked complete only by the timer of the finally
\* block, which is reached only once the local load, the settings select and
\* the member-company select have each settled or been skipped by a caught
\* exception; and when the remote calls settle, every load that starts ends
\* with initialization marked complete, whether they succeeded or failed.
C13_InitializedAfterLoad ==
    /\ [](isInitialized => (loadPc = "done" /\ companiesResp = NoResponse))
    /\ [][(isInitialized' /\ ~isInitialized) => loadPc = "timer"]_vars
    /\ [][(loadPc' = "timer" /\ loadPc # "timer") => LoadSettles]_vars
    /\ ((loadPc = "mount") ~> isInitialized)

\* C13 witness: initialization was marked complete after a settings select
\* that failed and a member-company select that answered rows.
C13_Witness ==
    /\ isInitialized
    /\ lastOp.name = "initTimer"
    /\ settingsRowId = Null
    /\ memberCompanies # << >>

\* C14: in every reachable state the in-memory member-company collection
\* ascends by order_index, whatever the interleaving of the initial select
\* (which answers its rows in that order) with the returns of add, update
\* and delete calls.
C14_CompaniesSorted == IsSortedByOrderIndex(memberCompanies)

\* C14 witness: an update gave a row a smaller order_index than the row
\* before it had, and the collection has that row first now.
C14_Witness ==
    /\ lastOp.name = "updateMemberCompany.return"
    /\ lastOp.outcome = "ok"
    /\ Len(memberCompanies) >= 2
    /\ memberCompanies[1] = lastOp.data
    /\ memberCompanies[1].id > memberCompanies[2].id
    /\ memberCompanies[1].order_index < memberCompanies[2].order_index

\* C15: updateProfileImage(kind, url) called with a settings row id known
\* sets the in-memory URL of that kind to url and issues one remote update;
\* when that update fails (an error result or a thrown exception), one alert
\* is shown, the settings stay as they are (the URL is not put back) and no
\* further remote update is issued.
C15_FailureKeepsOptimistic ==
    /\ [][(lastOp'.name = "updateProfileImage" /\ lastOp'.rowId # Null) =>
             /\ settings'[ImageUrlKey(lastOp'.type)] = lastOp'.url
             /\ remoteUpdates' = remoteUpdates + 1
         ]_vars
    /\ [][(lastOp'.name = "updateProfileImage.return" /\ lastOp'.outcome # "ok") =>
             /\ alerts' = alerts + 1
             /\ settings' = settings
             /\ remoteUpdates' = remoteUpdates
             /\ calls' \subseteq calls
         ]_vars

\* C15 witness: the remote update of the logo failed; an alert was shown, the
\* in-memory logo URL is the one passed in and the remote row has another.
C15_Witness ==
    /\ lastOp.name = "updateProfileImage.return"
    /\ lastOp.outcome = "error"
    /\ lastOp.type = "logo"
    /\ alerts = 1
    /\ remoteUpdates = 1
    /\ settings.logoImageUrl = lastOp.url
    /\ dbSettings.logo_image_url # lastOp.url

\* C16: when one localStorage key fails to parse during the initial load, the
\* other stored keys are still loaded into memory and the load goes on to the
\* remote settings select (and from there to the member-company select and
\* to the end of initialization).
C16_ParseFailureConfined ==
    [][lastOp'.name = "mount" =>
          /\ localStorage["BBS"].kind = "json" =>
                bbsData' = Parse(localStorage["BBS"])
          /\ localStorage["INQUIRIES"].kind = "json" =>
                inquiries' = Parse(localStorage["INQUIRIES"])
          /\ localStorage["SETTINGS"].kind = "json" =>
                settings' = Spread(settings, Parse(localStorage["SETTINGS"]))
          /\ loadPc' = "awaitSettings"
      ]_vars

\* C17: once initialization is marked complete and the save effect has run,
\* if its writes went through then the three localStorage keys hold the text
\* of the in-memory bulletin, settings and inquiry state as it is now; what
\* handlers changed before initialization completed is in it.
C17_CacheMirrorsMemory ==
    (isInitialized /\ persisted.saved) =>
        /\ localStorage["BBS"] = Text(JsonList(bbsData))
        /\ localStorage["SETTINGS"] = Text(JsonSettings(settings))
        /\ localStorage["INQUIRIES"] = Text(JsonList(inquiries))

\* C17 witness: an inquiry was added before initialization completed; the
\* gate has just opened and the stored inquiries include it.
C17_Witness ==
    /\ isInitialized /\ persisted.saved
    /\ lastOp.name = "initTimer"
    /\ ~pristine
    /\ inquiries # << >>
    /\ inquiries[1].content = "q"
    /\ localStorage["INQUIRIES"] = Text(JsonList(inquiries))

\* C18: with every remote call succeeding, whenever no remote call is in
\* flight (the initial selects included) the in-memory member-company
\* collection holds exactly the rows of the remote table, each once.
C18_CompaniesMirrorRemote ==
    (calls = {} /\ loadPc \in {"timer", "done"}) =>
        /\ {memberCompanies[i] : i \in 1..Len(memberCompanies)} = dbCompanies
        /\ Len(memberCompanies) = Cardinality(dbCompanies)

\* C19: after updateProfileImage(kind, url), the in-memory URL of that kind is
\* still url after the next step of the same container, unless that step is
\* another updateProfileImage of that kind; the response of the initial
\* settings select, when it is that next step, does not replace it.
C19_UrlStaysUntilNextUpdate ==
    [][(/\ lastOp.name = "updateProfileImage"
        /\ lastOp'.name # "reload"
        /\ ~(lastOp'.name = "updateProfileImage" /\ lastOp'.type = lastOp.type)) =>
          settings'[ImageUrlKey(lastOp.type)] = lastOp.url
      ]_vars

====
